---- MODULE Spec2Model ----
(***************************************************************************)
(* Reed-Solomon erasure coding over GF(2^16) in the novel polynomial basis *)
(* (src/src/novel_poly_basis.rs).                                          *)
(*                                                                         *)
(* Arrays are 1-based sequences here: the Rust element a[i] is a[i + 1].   *)
(* All integers stay below 2^31, so the u16/u32 arithmetic of the source   *)
(* is modelled without wrap-around except where a comment says otherwise.  *)
(***************************************************************************)
EXTENDS Integers, Sequences, FiniteSets, TLC

VARIABLES
  LOG_TABLE, EXP_TABLE, SKEW_FACTOR, B, LOG_WALSH,  \* the five static tables
  pc, calls, shards,       \* a process that calls encode and reconstruct
  fn, n, k, start, data, codeword, erasure, log_walsh2, i_high
                           \* one run of the functions below the interface

tableVars == <<LOG_TABLE, EXP_TABLE, SKEW_FACTOR, B, LOG_WALSH>>
procVars  == <<pc, calls, shards>>
coreVars  == <<fn, n, k, start, data, codeword, erasure, log_walsh2, i_high>>
vars      == <<tableVars, procVars, coreVars>>

----------------------------------------------------------------------------
(* Constants of the source *)

FIELD_BITS == 16
GENERATOR  == 45
BASE == <<1, 44234, 15374, 5694, 50562, 60718, 37196, 16402,
          27800, 4312, 27250, 47360, 64952, 64308, 65336, 39198>>
FIELD_SIZE == 2 ^ FIELD_BITS
MODULO     == FIELD_SIZE - 1
N == 32
K == 4

----------------------------------------------------------------------------
(* Integer helpers *)

Pow2 == [b \in 0..30 |-> 2 ^ b]

\* A function over 1..len as a sequence value (constant-time indexing).
Tab(f, len) == SubSeq(f, 1, len)

Zeros(len) == Tab([i \in 1..len |-> 0], len)

RECURSIVE XorBits(_, _)
XorBits(a, b) == IF a = 0 THEN b ELSE IF b = 0 THEN a
                 ELSE ((a + b) % 2) + 2 * XorBits(a \div 2, b \div 2)

XorNibble == [a \in 0..15 |-> [b \in 0..15 |-> XorBits(a, b)]]

\* a ^ b on 16-bit values, four bits at a time
Xor(a, b) == XorNibble[a % 16][b % 16]
             + 16 * XorNibble[(a \div 16) % 16][(b \div 16) % 16]
             + 256 * XorNibble[(a \div 256) % 16][(b \div 256) % 16]
             + 4096 * XorNibble[(a \div 4096) % 16][(b \div 4096) % 16]

\* (s & MODULO) + (s >> FIELD_BITS) for a u32 s
Fold(s) == (s % FIELD_SIZE) + (s \div FIELD_SIZE)

\* (a as u32 * b as u32) % MODULO for u16 a, b; the product fits u32 in the
\* source and is split here so that no intermediate exceeds 2^31
MulMod(a, b) == (((a * (b \div 256)) % MODULO) * 256 + a * (b % 256)) % MODULO

log2(x) == IF x <= 1 THEN 0 ELSE CHOOSE o \in 1..30 : Pow2[o] <= x /\ (o = 30 \/ x < Pow2[o + 1])

is_power_of_2(x) == x > 0 /\ \E o \in 0..30 : Pow2[o] = x

----------------------------------------------------------------------------
(* init(): LOG_TABLE and EXP_TABLE.  init() writes every entry of both     *)
(* tables before it reads it, so its result does not depend on what the    *)
(* tables held before.                                                     *)

\* one iteration of the state update of the first loop
LfsrStep(state) ==
  IF state \div Pow2[FIELD_BITS - 1] # 0
  THEN Xor((state % Pow2[FIELD_BITS - 1]) * 2, GENERATOR)
  ELSE state * 2

\* the values `state` takes in cnt >= 1 successive iterations, from `state`
\* on: those of the first half, then those of the rest
RECURSIVE LfsrRun(_, _)
LfsrRun(state, cnt) ==
  IF cnt = 1 THEN <<state>>
  ELSE LET head == LfsrRun(state, cnt \div 2)
       IN  head \o LfsrRun(LfsrStep(head[Len(head)]), cnt - cnt \div 2)

\* LfsrStates[i + 1] is `state` at the start of iteration i, i in 0..MODULO-1
LfsrStates == LfsrRun(1, MODULO)

\* Stable radix sort of a sequence of pairs <<key, value>> on the 16-bit key.
RECURSIVE SortByKey(_, _)
SortByKey(s, b) ==
  IF b = FIELD_BITS THEN s
  ELSE LET d == Pow2[b]
       IN  SortByKey(SelectSeq(s, LAMBDA e : (e[1] \div d) % 2 = 0)
                     \o SelectSeq(s, LAMBDA e : (e[1] \div d) % 2 = 1), b + 1)

\* The table t with t[key] = value for every pair of `pairs`, whose keys are
\* exactly lo..lo+Len(pairs)-1 (each once): the array after the scattered
\* writes `t[key] = value`.
Scatter(pairs) == LET sorted == SortByKey(pairs, 0)
                  IN  Tab([p \in 1..Len(sorted) |-> sorted[p][2]], Len(sorted))

\* EXP_TABLE after the first loop and `EXP_TABLE[0] = MODULO`
InitExpLoop ==
  <<MODULO>> \o Scatter(Tab([i \in 1..MODULO |-> <<LfsrStates[i], i - 1>>], MODULO))

\* LOG_TABLE after `LOG_TABLE[j + (1 << i)] = LOG_TABLE[j] ^ BASE[i]`
RECURSIVE InitLogBasis(_, _)
InitLogBasis(l, i) ==
  IF i = FIELD_BITS THEN l
  ELSE InitLogBasis(l \o [j \in 1..Len(l) |-> Xor(l[j], BASE[i + 1])], i + 1)

\* LOG_TABLE after `LOG_TABLE[i] = EXP_TABLE[LOG_TABLE[i]]`
InitLog == LET basis == InitLogBasis(<<0>>, 0)
           IN  Tab([i \in 1..FIELD_SIZE |-> InitExpLoop[basis[i] + 1]], FIELD_SIZE)

\* EXP_TABLE after `EXP_TABLE[LOG_TABLE[i]] = i` and
\* `EXP_TABLE[MODULO] = EXP_TABLE[0]`
InitExp ==
  LET e == Scatter(Tab([i \in 1..FIELD_SIZE |-> <<InitLog[i], i - 1>>], FIELD_SIZE))
  IN  SubSeq(e, 1, MODULO) \o <<e[1]>>

\* the static initialiser [0_u16; FIELD_SIZE]
ZeroTable == Zeros(FIELD_SIZE)

ZeroSkew == Zeros(MODULO)
ZeroB    == Zeros(FIELD_SIZE \div 2)

----------------------------------------------------------------------------
(* Field multiplication and the Walsh transform.  `t` is a record of table *)
(* contents: t.LOG, t.EXP, t.SKEW, t.B, t.LOG_WALSH.                        *)

\* a * EXP_TABLE[b]: Rust parses `x + b & MODULO` as `(x + b) & MODULO` and
\* `x + b >> FIELD_BITS` as `(x + b) >> FIELD_BITS`
mul_table(t, a, b) ==
  IF a # 0 THEN t.EXP[Fold(t.LOG[a + 1] + b) + 1] ELSE 0

(* walsh(data, size).  The passes with depart_no < size / 2 never pair an   *)
(* entry of the lower half with one of the upper half, so they transform   *)
(* the two halves separately; the last pass (depart_no = size / 2) pairs   *)
(* entry i of the lower half with entry i of the upper half.               *)

\* WalshPass with the difference taken as a wrapping u16 subtraction
WalshPassWrappingSub(lo, hi) ==
  [i \in 1..Len(lo) |-> Fold(lo[i] + hi[i])]
    \o [i \in 1..Len(lo) |-> (lo[i] + FIELD_SIZE - hi[i]) % FIELD_SIZE]

\* the pass with depart_no = Len(lo): lo holds data[i], hi holds
\* data[i + depart_no]
WalshPass(lo, hi) ==
  [i \in 1..Len(lo) |-> Fold(lo[i] + hi[i])]
  \o [i \in 1..Len(lo) |-> Fold(lo[i] + MODULO - hi[i])]

ZeroBlocks == [o \in 0..FIELD_BITS |-> Zeros(Pow2[o])]

RECURSIVE WalshOfZerosFrom(_)
WalshOfZerosFrom(w) ==
  IF Len(w) = FIELD_SIZE THEN <<w>>
  ELSE <<w>> \o WalshOfZerosFrom(WalshPass(w, w))

\* WalshOfZeros[o + 1]: the transform of 2^o zeros
WalshOfZeros == WalshOfZerosFrom(<<0>>)

\* the transform of a block v of 2^o entries; that of an all-zero block is
\* the same wherever the block lies and is looked up
RECURSIVE WalshBlock(_, _)
WalshBlock(v, o) ==
  IF o = 0 THEN v
  ELSE IF v = ZeroBlocks[o] THEN WalshOfZeros[o + 1]
  ELSE LET lo == WalshBlock(SubSeq(v, 1, Pow2[o - 1]), o - 1)
           hi == WalshBlock(SubSeq(v, Pow2[o - 1] + 1, Pow2[o]), o - 1)
       IN  \* both halves are transformed before the pass that pairs them
           IF Len(lo) = Len(hi) THEN WalshPass(lo, hi) ELSE <<>>

walsh(v, size) ==
  IF size <= 1 THEN v
  ELSE WalshBlock(SubSeq(v, 1, size), log2(size)) \o SubSeq(v, size + 1, Len(v))

\* the first 2^h entries of WalshBlock(v, o): in the passes with
\* depart_no >= 2^h they are the sums `data[i] + data[i + depart_no]`
RECURSIVE WalshHead(_, _, _)
WalshHeadSum(lo, hi) == [i \in 1..Len(lo) |-> Fold(lo[i] + hi[i])] \o <<>>
WalshHead(v, o, h) ==
  IF Len(v) <= Pow2[h] THEN WalshBlock(v, o)
  ELSE LET lo == WalshHead(SubSeq(v, 1, Pow2[o - 1]), o - 1, h)
           hi == WalshHead(SubSeq(v, Pow2[o - 1] + 1, Pow2[o]), o - 1, h)
       IN  IF Len(lo) = Len(hi) THEN WalshHeadSum(lo, hi) ELSE <<>>

----------------------------------------------------------------------------
(* init_dec(): SKEW_FACTOR, B and LOG_WALSH from LOG_TABLE and EXP_TABLE.  *)

\* `base` after iteration m of the main loop (the two updates that follow
\* the SKEW_FACTOR loop); base[i] of the source is base[i + 1]
BaseStep(t, base, m) ==
  LET idx == mul_table(t, base[m + 1], t.LOG[Xor(base[m + 1], 1) + 1])
      bm  == MODULO - t.LOG[idx + 1]
  IN  Tab([i \in 1..(FIELD_BITS - 1) |->
             IF i - 1 < m THEN base[i]
             ELSE IF i - 1 = m THEN bm
             ELSE mul_table(t, base[i], (t.LOG[Xor(base[i], 1) + 1] + bm) % MODULO)],
          FIELD_BITS - 1)

\* Bases(t)[m + 1] is `base` at the start of iteration m; Bases(t)[FIELD_BITS]
\* is `base` after the loop
RECURSIVE BasesFrom(_, _, _)
BasesFrom(t, base, m) ==
  IF m = FIELD_BITS - 1 THEN <<base>>
  ELSE <<base>> \o BasesFrom(t, BaseStep(t, base, m), m + 1)

Bases(t) == BasesFrom(t, Tab([i \in 1..(FIELD_BITS - 1) |-> Pow2[i]], FIELD_BITS - 1), 0)

RECURSIVE TrailingOnes(_)
TrailingOnes(x) == IF x % 2 = 0 THEN 0 ELSE 1 + TrailingOnes(x \div 2)

(* SKEW_FACTOR[0..2s) after the main loop, given SKEW_FACTOR[0..s) = sk,    *)
(* s = 2^(i+1).  Iteration (m, i) of the loop nest writes                   *)
(* SKEW_FACTOR[j + s] = SKEW_FACTOR[j] ^ base[i] for the j < s that end in  *)
(* exactly m one bits, with `base` as it is at the start of iteration m;    *)
(* only m <= i occurs.  The entry j + s = 2s - 1 has i + 2 trailing ones:   *)
(* it is set to 0 by `SKEW_FACTOR[(1 << m) - 1] = 0` when i + 2 is a value  *)
(* of m, and is otherwise never written and keeps its old content.          *)
SkewDouble(sk, bases, old, i) ==
  LET s == Len(sk)
  IN  sk \o [j1 \in 1..s |->
               LET m == TrailingOnes(j1 - 1)
               IN  IF m <= i THEN Xor(sk[j1], bases[m + 1][i + 1])
                   ELSE IF i + 2 <= FIELD_BITS - 2 THEN 0
                   ELSE IF j1 + s <= Len(old) THEN old[j1 + s]
                   ELSE 0]   \* index MODULO: past the end, dropped by SkewLoop

RECURSIVE SkewFrom(_, _, _, _)
SkewFrom(sk, bases, old, i) ==
  IF i = FIELD_BITS - 1 THEN sk
  ELSE SkewFrom(SkewDouble(sk, bases, old, i), bases, old, i + 1)

\* SKEW_FACTOR after the main loop (before the logarithms are taken):
\* entries 0 and 1 are (1 << 0) - 1 and (1 << 1) - 1
SkewLoop(t, old) ==
  SubSeq(SkewFrom(<<0>>, Bases(t), old, -1), 1, MODULO)

\* SKEW_FACTOR after `SKEW_FACTOR[i] = LOG_TABLE[SKEW_FACTOR[i]]`
InitDecSkew(t, old) ==
  LET sk == SkewLoop(t, old)
  IN  Tab([i \in 1..MODULO |-> t.LOG[sk[i] + 1]], MODULO)

\* `base[i] = (MODULO - base[i] + base[i - 1]) % MODULO` for the entries
\* after those in acc
RECURSIVE BaseSums(_, _)
BaseSums(base, acc) ==
  IF Len(acc) = Len(base) THEN acc
  ELSE BaseSums(base, acc \o <<(MODULO - base[Len(acc) + 1] + acc[Len(acc)]) % MODULO>>)

\* `base` after the two statements that precede the B loop
BaseForB(t) ==
  LET base == Bases(t)[FIELD_BITS]
  IN  BaseSums(base, <<MODULO - base[1]>>)

RECURSIVE BFrom(_, _, _)
BFrom(b, base, i) ==
  IF i = FIELD_BITS - 1 THEN b
  ELSE BFrom(b \o [j \in 1..Len(b) |-> (b[j] + base[i + 1]) % MODULO], base, i + 1)

InitDecB(t) == BFrom(<<0>>, BaseForB(t), 0)

InitDecLogWalsh(t) == walsh(<<0>> \o SubSeq(t.LOG, 2, FIELD_SIZE), FIELD_SIZE)

----------------------------------------------------------------------------
(* The transforms in the novel polynomial basis                            *)

\* SKEW_FACTOR[idx]: t.SKEW holds the entries init_dec's main loop writes,
\* t.SKEW_KEPT those it never writes
SkewAt(t, idx) ==
  IF idx \in DOMAIN t.SKEW_KEPT THEN t.SKEW_KEPT[idx] ELSE t.SKEW[idx + 1]

\* a pass with depart_no = d works on the blocks [j - d, j + d) for
\* j = d, 3d, 5d, ... < size; it indexes out of bounds (a panic) when a block
\* ends past the slice or j + index - 1 is past the end of SKEW_FACTOR
PassInRange(len, d, size, index) ==
  \A j \in d..(size - 1) :
     (j - d) % (2 * d) = 0 => j + d <= len /\ j + index - 1 < MODULO

\* the values depart_no takes in inverse_fft_in_novel_poly_basis
IfftDeparts(size) == {d \in 1..size : d < size /\ is_power_of_2(d)}

\* the values depart_no takes in fft_in_novel_poly_basis
FftDeparts(size) == {size \div Pow2[e] : e \in 1..FIELD_BITS} \ {0}

\* IfftLevel with the two inner loops in the order they have in
\* fft_in_novel_poly_basis: the multiplication reads data[i + depart_no]
\* before data[i] is added to it
IfftLevelMultiplyFirst(t, v, d, size, index) ==
  Tab([p1 \in 1..Len(v) |->
         LET j == ((p1 - 1) \div (2 * d)) * (2 * d) + d
         IN  IF j >= size THEN v[p1]
             ELSE IF p1 - 1 >= j THEN Xor(v[p1], v[p1 - d])
             ELSE LET skew == SkewAt(t, j + index - 1)
                  IN  IF skew # MODULO THEN Xor(v[p1], mul_table(t, v[p1 + d], skew))
                      ELSE v[p1]], Len(v))

\* one pass of the outer loop of inverse_fft_in_novel_poly_basis, with
\* depart_no = d; the blocks of one pass are disjoint
IfftLevel(t, v, d, size, index) ==
  Tab([p1 \in 1..Len(v) |->
         LET j == ((p1 - 1) \div (2 * d)) * (2 * d) + d
         IN  IF j >= size THEN v[p1]
             ELSE IF p1 - 1 >= j THEN Xor(v[p1], v[p1 - d])
             ELSE LET skew == SkewAt(t, j + index - 1)
                      hi   == Xor(v[p1 + d], v[p1])
                  IN  IF skew # MODULO THEN Xor(v[p1], mul_table(t, hi, skew))
                      ELSE v[p1]], Len(v))

\* the passes from depart_no = d on; an empty slice has no pass to make
\* (the test on v also has each pass computed before the next one starts)
RECURSIVE IfftFrom(_, _, _, _, _)
IfftFrom(t, v, d, size, index) ==
  IF Len(v) = 0 \/ d >= size THEN v
  ELSE IfftFrom(t, IfftLevel(t, v, d, size, index), 2 * d, size, index)

inverse_fft_in_novel_poly_basis(t, v, size, index) == IfftFrom(t, v, 1, size, index)

\* one pass of the outer loop of fft_in_novel_poly_basis
FftLevel(t, v, d, size, index) ==
  Tab([p1 \in 1..Len(v) |->
         LET j    == ((p1 - 1) \div (2 * d)) * (2 * d) + d
             skew == SkewAt(t, j + index - 1)
             lo1  == IF p1 - 1 >= j THEN p1 - d ELSE p1
             lo   == IF skew # MODULO
                     THEN Xor(v[lo1], mul_table(t, v[lo1 + d], skew))
                     ELSE v[lo1]
         IN  IF j >= size THEN v[p1]
             ELSE IF p1 - 1 >= j THEN Xor(v[p1], lo) ELSE lo], Len(v))

\* the passes from depart_no = d down
RECURSIVE FftFrom(_, _, _, _, _)
FftFrom(t, v, d, size, index) ==
  IF Len(v) = 0 \/ d = 0 THEN v
  ELSE FftFrom(t, FftLevel(t, v, d, size, index), d \div 2, size, index)

fft_in_novel_poly_basis(t, v, size, index) == FftFrom(t, v, size \div 2, size, index)

\* cos.get(j).copied().unwrap_or_default()
GetOr0(cos, j) == IF j < Len(cos) THEN cos[j + 1] ELSE 0

\* `for j in lo..hi { cos[j] ^= cos.get(j + off) }` with off >= hi - lo, so
\* that no entry read has been written by the loop
XorShifted(cos, lo, hi, off) ==
  Tab([p1 \in 1..Len(cos) |->
         IF lo <= p1 - 1 /\ p1 - 1 < hi THEN Xor(cos[p1], GetOr0(cos, p1 - 1 + off))
         ELSE cos[p1]], Len(cos))

\* FormalDerivativeFrom with `length` taken as 1 in every pass
FormalDerivativeFromLengthOne(cos, i, size) ==
  IF size <= 1 THEN cos
  ELSE Tab([p1 \in 1..Len(cos) |->
              IF p1 < size THEN Xor(cos[p1], GetOr0(cos, p1)) ELSE cos[p1]], Len(cos))

\* the first loop of formal_derivative from i on
RECURSIVE FormalDerivativeFrom(_, _, _)
FormalDerivativeFrom(cos, i, size) ==
  IF Len(cos) = 0 \/ i >= size THEN cos
  ELSE LET length == (Xor(i, i - 1) + 1) \div 2
       IN  FormalDerivativeFrom(XorShifted(cos, i - length, i, length), i + 1, size)

\* the second loop of formal_derivative from i on
RECURSIVE FormalDerivativeTail(_, _, _)
FormalDerivativeTail(cos, i, size) ==
  IF ~(i < FIELD_SIZE /\ i < Len(cos)) THEN cos
  ELSE FormalDerivativeTail(XorShifted(cos, 0, size, i), 2 * i, size)

formal_derivative(cos, size) ==
  FormalDerivativeTail(FormalDerivativeFrom(cos, 1, size), size, size)

----------------------------------------------------------------------------
(* The contents of the five static tables.  A state variable holds how its  *)
(* table was last written, the operators below give the 65536 entries.      *)
(*   LOG_TABLE, EXP_TABLE : "zeroed" (static initialiser) or "init"         *)
(*   B, LOG_WALSH         : [from |-> "static"] (static initialiser) or     *)
(*                          [from |-> the LOG_TABLE init_dec() ran with]    *)
(*   SKEW_FACTOR          : the same, with hole |-> the entry SKEW_HOLE,    *)
(*                          which init_dec()'s main loop never assigns      *)

\* the index (1 << FIELD_BITS - 1) - 1: `SKEW_FACTOR[(1 << m) - 1] = 0` and
\* `SKEW_FACTOR[j + s] = ...` reach every index below MODULO but this one
SKEW_HOLE == Pow2[FIELD_BITS - 1] - 1

\* LOG_TABLE and EXP_TABLE by version
LogExp == [zeroed |-> [LOG |-> ZeroTable, EXP |-> ZeroTable],
           init   |-> [LOG |-> InitLog,   EXP |-> InitExp]]

\* what init_dec() computes, by the version of LOG_TABLE and EXP_TABLE it reads
InitDecFrom(t) ==
  [SKEW      |-> InitDecSkew(t, ZeroSkew),
   B         |-> InitDecB(t),
   LOG_WALSH |-> InitDecLogWalsh(t)]

InitDec == [zeroed |-> InitDecFrom(LogExp.zeroed), init |-> InitDecFrom(LogExp.init)]

\* the record of table contents the functions read in the current state
Tables(log, exp, skew, b, lw) ==
  [LOG       |-> LogExp[log].LOG,
   EXP       |-> LogExp[exp].EXP,
   SKEW      |-> IF skew.from = "static" THEN ZeroSkew ELSE InitDec[skew.from].SKEW,
   SKEW_KEPT |-> [idx \in {SKEW_HOLE} |-> skew.hole],
   B         |-> IF b.from = "static" THEN ZeroB ELSE InitDec[b.from].B,
   LOG_WALSH |-> IF lw.from = "static" THEN ZeroTable ELSE InitDec[lw.from].LOG_WALSH]

----------------------------------------------------------------------------
(* Encoding and decoding of one codeword                                   *)

\* a[0..Len(src)) = src; the rest of a is kept (mem_cpy into a prefix)
mem_cpy(a, src) == src \o SubSeq(a, Len(src) + 1, Len(a))

mem_zero(len) == Zeros(len)

\* the six assertions at the head of encode_low
EncodeLowAsserts(data_, k_, codeword_len, n_) ==
  /\ k_ + k_ <= n_
  /\ codeword_len = n_
  /\ Len(data_) = n_
  /\ is_power_of_2(n_)
  /\ is_power_of_2(k_)
  /\ (n_ \div k_) * k_ = n_

\* the loop `for shift in (k..n).step_by(k)`: each pass copies M_topdash
\* to codeword[shift..shift + k) and transforms it there
RECURSIVE EncodeLowShifts(_, _, _, _, _)
EncodeLowShifts(t, m_topdash, k_, n_, shift) ==
  IF shift >= n_ THEN <<>>
  ELSE fft_in_novel_poly_basis(t, m_topdash, k_, shift)
         \o EncodeLowShifts(t, m_topdash, k_, n_, shift + k_)

\* RestoreMessage left out: the head of the codeword stays M_topdash
RestoreMessageSkipped(cw, data_, k_) == cw

\* the last statement of encode_low: `mem_cpy(&mut codeword[0..k], &data[0..k])`
RestoreMessage(cw, data_, k_) == mem_cpy(cw, SubSeq(data_, 1, k_))

\* the codeword encode_low leaves, when its assertions hold
encode_low(t, data_, k_, n_) ==
  LET m_topdash == inverse_fft_in_novel_poly_basis(t, SubSeq(data_, 1, k_), k_, 0)
  IN  RestoreMessage(m_topdash \o EncodeLowShifts(t, m_topdash, k_, n_, k_), data_, k_)

\* eval_error_polynomial up to the entries of log_walsh2 that decode_main
\* reads, log_walsh2[0..head); buf is log_walsh2 on entry, of FIELD_SIZE
\* entries; head is a power of two, at least z
eval_error_polynomial(t, erasure_, buf, n_, head) ==
  LET z      == IF n_ < Len(erasure_) THEN n_ ELSE Len(erasure_)
      filled == Tab([i \in 1..FIELD_SIZE |->
                       IF i <= z THEN (IF erasure_[i] THEN 1 ELSE 0)
                       ELSE IF i <= N THEN 0
                       ELSE buf[i]], FIELD_SIZE)
      w1     == walsh(filled, FIELD_SIZE)
      lw     == t.LOG_WALSH
      scaled == Tab([i \in 1..FIELD_SIZE |->
                       IF i <= n_ THEN MulMod(w1[i], lw[i]) ELSE w1[i]],
                    FIELD_SIZE)
      w2     == WalshHead(scaled, FIELD_BITS, log2(head))
  IN  \* the buffer after each statement, each computed before the next
      IF Len(filled) = FIELD_SIZE /\ Len(w1) = FIELD_SIZE /\ Len(scaled) = FIELD_SIZE
      THEN Tab([i \in 1..head |->
                  IF i <= z /\ erasure_[i] THEN MODULO - w2[i] ELSE w2[i]], head)
      ELSE <<>>

\* `codeword[i] = mul_table(codeword[i], b); codeword[i + 1] = ...` for the
\* even i, with b = B[i >> 1], or MODULO - B[i >> 1] when negated
ScaleByB(t, cw, negated) ==
  Tab([p1 \in 1..Len(cw) |->
         LET b == t.B[((p1 - 1) \div 2) + 1]
         IN  mul_table(t, cw[p1], IF negated THEN MODULO - b ELSE b)], Len(cw))

\* the four assertions at the head of decode_main
DecodeMainAsserts(cw, k_, erasure_, n_) ==
  /\ Len(cw) >= k_
  /\ Len(cw) = n_
  /\ Len(erasure_) >= k_
  /\ Len(erasure_) = n_

\* the codeword decode_main leaves, when its assertions hold
decode_main(t, cw, k_, erasure_, lw2, n_) ==
  LET masked  == Tab([i \in 1..n_ |->
                        IF erasure_[i] THEN 0 ELSE mul_table(t, cw[i], lw2[i])], n_)
      coeffs  == inverse_fft_in_novel_poly_basis(t, masked, n_, 0)
      derived == ScaleByB(t, formal_derivative(ScaleByB(t, coeffs, TRUE), n_), FALSE)
      values  == fft_in_novel_poly_basis(t, derived, n_, 0)
  IN  Tab([i \in 1..n_ |->
             IF erasure_[i] THEN mul_table(t, values[i], lw2[i]) ELSE 0], n_)

----------------------------------------------------------------------------
(* The tables as state                                                     *)

\* the five variables as one record
TableState ==
  [LOG_TABLE |-> LOG_TABLE, EXP_TABLE |-> EXP_TABLE, SKEW_FACTOR |-> SKEW_FACTOR,
   B |-> B, LOG_WALSH |-> LOG_WALSH]

SetTables(tb) ==
  /\ LOG_TABLE' = tb.LOG_TABLE
  /\ EXP_TABLE' = tb.EXP_TABLE
  /\ SKEW_FACTOR' = tb.SKEW_FACTOR
  /\ B' = tb.B
  /\ LOG_WALSH' = tb.LOG_WALSH

\* the contents the functions read when the tables are as in tb
ContentsOf(tb) == Tables(tb.LOG_TABLE, tb.EXP_TABLE, tb.SKEW_FACTOR, tb.B, tb.LOG_WALSH)

\* the contents the functions read in the current state
T == ContentsOf(TableState)

\* `static mut ... = [0_u16; ...]`: the tables at process start
StaticState ==
  [LOG_TABLE |-> "zeroed", EXP_TABLE |-> "zeroed",
   SKEW_FACTOR |-> [from |-> "static", hole |-> 0],
   B |-> [from |-> "static"], LOG_WALSH |-> [from |-> "static"]]

\* init(): every entry of LOG_TABLE and EXP_TABLE is assigned, whatever the
\* tables held before
init(tb) == [tb EXCEPT !.LOG_TABLE = "init", !.EXP_TABLE = "init"]

\* init_dec(), reading LOG_TABLE and EXP_TABLE as it finds them (init()
\* writes both, so they have one version).  The entry SKEW_HOLE is not
\* assigned by the main loop, and the loop
\* `SKEW_FACTOR[i] = LOG_TABLE[SKEW_FACTOR[i]]` maps its old content.
init_dec(tb) ==
  [tb EXCEPT !.SKEW_FACTOR = [from |-> tb.LOG_TABLE,
                              hole |-> LogExp[tb.LOG_TABLE].LOG[tb.SKEW_FACTOR.hole + 1]],
             !.B = [from |-> tb.LOG_TABLE],
             !.LOG_WALSH = [from |-> tb.LOG_TABLE]]

\* the five variables hold tb
TablesAre(tb) ==
  /\ LOG_TABLE = tb.LOG_TABLE
  /\ EXP_TABLE = tb.EXP_TABLE
  /\ SKEW_FACTOR = tb.SKEW_FACTOR
  /\ B = tb.B
  /\ LOG_WALSH = tb.LOG_WALSH

StaticTables == TablesAre(StaticState)

\* the tables after `init(); init_dec();` from process start
BuiltTables == TablesAre(init_dec(init(StaticState)))

----------------------------------------------------------------------------
(* The transforms on their own: the tests flt_back_and_forth and           *)
(* flt_rountrip_small, which run with the tables as they find them, for    *)
(* sizes up to 2^MaxLogN and up to MaxOps transforms in a row.             *)

MaxLogN == 2
MaxOps  == 2

\* values of vector entries
Vals == {0, 1, 2, MODULO}

\* EXPECTED of flt_rountrip_small
EXPECTED == <<1, 2, 3, 5, 8, 13, 21, 44, 65, 0, 65535, 2, 3, 5, 7, 11>>

PowerOfTwoSizes == {Pow2[e] : e \in 0..MaxLogN}

\* vectors of length len with at most two non-zero entries, and the head of
\* EXPECTED
TestVectors(len) ==
  {Tab([i \in 1..len |-> IF i = p THEN a ELSE IF i = q THEN b ELSE 0], len) :
     <<p, q, a, b>> \in (1..len) \X (1..len) \X Vals \X Vals}
  \cup {SubSeq(EXPECTED, 1, len) : e \in {len} \cap (1..Len(EXPECTED))}

\* the start indices of the tests (K = N / 4 in both), the one whose window
\* holds SKEW_HOLE, and the last one whose window is in range
StartIndices(size) ==
  {s \in {0, size \div 4, size, SKEW_HOLE - 1, MODULO - size + 1} :
     \A j \in 1..(size - 1) : j + s - 1 >= 0 /\ j + s - 1 < MODULO}

NoProcess == calls = <<>> /\ shards = <<>>

InitTransforms ==
  /\ StaticTables \/ BuiltTables
  /\ NoProcess
  /\ pc = "transforms"
  /\ fn = <<>>
  /\ n \in PowerOfTwoSizes
  /\ start \in StartIndices(n)
  /\ data \in TestVectors(n)
  /\ codeword = data
  /\ k = 0 /\ erasure = <<>> /\ log_walsh2 = <<>> /\ i_high = 0

Fft ==
  /\ Len(fn) < MaxOps
  /\ \A d \in FftDeparts(n) : PassInRange(Len(codeword), d, n, start)
  /\ codeword' = fft_in_novel_poly_basis(T, codeword, n, start)
  /\ fn' = Append(fn, "fft_in_novel_poly_basis")
  /\ UNCHANGED <<tableVars, procVars, n, k, start, data, erasure, log_walsh2, i_high>>

Ifft ==
  /\ Len(fn) < MaxOps
  /\ \A d \in IfftDeparts(n) : PassInRange(Len(codeword), d, n, start)
  /\ codeword' = inverse_fft_in_novel_poly_basis(T, codeword, n, start)
  /\ fn' = Append(fn, "inverse_fft_in_novel_poly_basis")
  /\ UNCHANGED <<tableVars, procVars, n, k, start, data, erasure, log_walsh2, i_high>>

Walsh ==
  /\ Len(fn) < MaxOps
  /\ codeword' = walsh(codeword, n)
  /\ fn' = Append(fn, "walsh")
  /\ UNCHANGED <<tableVars, procVars, n, k, start, data, erasure, log_walsh2, i_high>>

NextTransforms == Fft \/ Ifft \/ Walsh

SpecTransforms == InitTransforms /\ [][NextTransforms]_vars

\* C9: for every power-of-two size n, every start index whose SKEW window is
\* in range and every vector x of length n, fft_in_novel_poly_basis(x, n, s)
\* followed by inverse_fft_in_novel_poly_basis(., n, s) gives x back.
FftThenIfftIsIdentity ==
  fn = <<"fft_in_novel_poly_basis", "inverse_fft_in_novel_poly_basis">>
    => codeword = data

\* a round trip over built tables in which the forward transform changed
\* the vector
FftThenIfftWitness ==
  /\ fn = <<"fft_in_novel_poly_basis", "inverse_fft_in_novel_poly_basis">>
  /\ BuiltTables /\ n = 4 /\ start = n
  /\ data = SubSeq(EXPECTED, 1, n)
  /\ fft_in_novel_poly_basis(T, data, n, start) # data

\* C10: for every power-of-two size n and every vector v of n 16-bit values,
\* walsh applied twice gives at each position a value congruent to n * v[i]
\* modulo MODULO (0 and MODULO stand for the same residue).
WalshTwiceScalesByN ==
  fn = <<"walsh", "walsh">>
    => \A i \in 1..n : codeword[i] % MODULO = (n * data[i]) % MODULO

\* walsh twice on a vector that holds MODULO and another non-zero value
WalshTwiceWitness ==
  /\ fn = <<"walsh", "walsh">>
  /\ n = 4
  /\ data = <<MODULO, 0, 2, 0>>
  /\ codeword # data

----------------------------------------------------------------------------
(* One codeword through the functions below the interface, as in           *)
(* ported_c_test, for the sizes n = 2^e, e <= MaxLogN, and the powers of   *)
(* two k <= n.  The test always calls encode_low; here the encoder is the  *)
(* one the commented-out branch of `encode` selects: encode_high when      *)
(* k + k > n.  An erasure pattern is a number, bit i set for erasure[i];   *)
(* eval_error_polynomial reads nothing but the pattern and LOG_WALSH, and  *)
(* is run as soon as the pattern is chosen.                                *)

MaxMask == 7

CoreSizes == {s \in PowerOfTwoSizes \X PowerOfTwoSizes : s[2] <= s[1]}

ErasureOf(mask, len) == Tab([i \in 1..len |-> (mask \div Pow2[i - 1]) % 2 = 1], len)

ErasedCount(er) == Cardinality({i \in 1..Len(er) : er[i]})

\* messages: data[i] = i * i as in the test, scaled and shifted, in the
\* first k_ entries, and one value in the entries the encoder must not read
Messages(len, k_) ==
  {Tab([i1 \in 1..len |->
          IF i1 <= k_ THEN ((i1 - 1) * (i1 - 1) * a + b) % FIELD_SIZE ELSE c], len) :
     <<a, b, c>> \in {1, 257} \X Vals \X {0, 7}}

InitCore ==
  /\ StaticTables
  /\ NoProcess
  /\ pc = "start"
  /\ fn = <<>>
  /\ n = 0 /\ k = 0 /\ start = 0 /\ i_high = 0
  /\ data = <<>> /\ codeword = <<>> /\ erasure = <<>> /\ log_walsh2 = <<>>

\* `init(); init_dec();`
TestInit ==
  /\ pc = "start"
  /\ SetTables(init_dec(init(TableState)))
  /\ fn' = fn \o <<"init", "init_dec">>
  /\ pc' = "tables"
  /\ UNCHANGED <<calls, shards, n, k, start, data, codeword, erasure, log_walsh2, i_high>>

\* the erasure simulation, for sizes n_, k_ and the pattern mask, and
\* `eval_error_polynomial(&erasure[..], &mut log_walsh2[..], FIELD_SIZE)` on
\* a zeroed log_walsh2
TestErasures(n_, k_, mask) ==
  /\ pc = "tables"
  /\ mask < Pow2[n_]
  /\ ErasedCount(ErasureOf(mask, n_)) <= n_ - k_
  /\ n' = n_
  /\ k' = k_
  /\ erasure' = ErasureOf(mask, n_)
  /\ log_walsh2' = eval_error_polynomial(T, ErasureOf(mask, n_), ZeroTable, FIELD_SIZE, n_)
  /\ fn' = Append(fn, "eval_error_polynomial")
  /\ pc' = "erasures"
  /\ UNCHANGED <<tableVars, calls, shards, start, data, codeword, i_high>>

\* the message and `let mut codeword = [0_u16; N]`
TestMessage(msg) ==
  /\ pc = "erasures"
  /\ data' = msg
  /\ codeword' = Zeros(n)
  /\ pc' = "message"
  /\ UNCHANGED <<tableVars, calls, shards, fn, n, k, start, erasure, log_walsh2, i_high>>

\* `encode_low(&data[..], K, &mut codeword[..], N)`
TestEncodeLow ==
  /\ pc = "message"
  /\ ~(k + k > n)
  /\ IF EncodeLowAsserts(data, k, Len(codeword), n)
     THEN codeword' = encode_low(T, data, k, n) /\ pc' = "encoded"
     ELSE codeword' = codeword /\ pc' = "panicked"
  /\ fn' = Append(fn, "encode_low")
  /\ UNCHANGED <<tableVars, calls, shards, n, k, start, data, erasure, log_walsh2, i_high>>

\* `encode_high(data_skip_t, K, data_till_t, &mut codeword[..], N)` up to its
\* loop: data is split at t = n - k, the head is the parity, codeword is mem
TestEncodeHigh ==
  /\ pc = "message"
  /\ k + k > n
  /\ data' = mem_cpy(data, mem_zero(n - k))
  /\ i_high' = n - k
  /\ fn' = Append(fn, "encode_high")
  /\ pc' = "encode_high"
  /\ UNCHANGED <<tableVars, calls, shards, n, k, start, codeword, erasure, log_walsh2>>

\* encode_high from the loop test on, one pass of `while i < n` at a time.
\* The slice data[(i - t)..t] panics when it starts past its end or ends
\* past the data; mem_cpy's debug_assert_eq panics in a debug build when the
\* slice is not t long, a release build copies what there is.
TestEncodeHighStep ==
  /\ pc = "encode_high"
  /\ LET t_      == n - k
         parity  == SubSeq(data, 1, t_)
         message == SubSeq(data, t_ + 1, n)
         sliceOk == i_high - t_ <= t_ /\ t_ <= Len(message)
         src     == SubSeq(message, i_high - t_ + 1, t_)
         inRange == \A d \in IfftDeparts(t_) : PassInRange(Len(codeword), d, t_, i_high)
         mem     == inverse_fft_in_novel_poly_basis(T, mem_cpy(codeword, src), t_, i_high)
     IN  IF i_high < n
         THEN \E build \in {"debug", "release"} :
                IF ~sliceOk \/ ~inRange \/ (build = "debug" /\ Len(src) # t_)
                THEN pc' = "panicked" /\ UNCHANGED <<data, codeword, i_high>>
                ELSE /\ codeword' = mem
                     /\ data' = mem_cpy(data, Tab([j \in 1..t_ |-> Xor(parity[j], mem[j])], t_))
                     /\ i_high' = i_high + t_
                     /\ pc' = pc
         ELSE IF \A d \in FftDeparts(t_) : PassInRange(t_, d, t_, 0)
              THEN /\ data' = mem_cpy(data, fft_in_novel_poly_basis(T, parity, t_, 0))
                   /\ pc' = "encoded"
                   /\ UNCHANGED <<codeword, i_high>>
              ELSE pc' = "panicked" /\ UNCHANGED <<data, codeword, i_high>>
  /\ UNCHANGED <<tableVars, calls, shards, fn, n, k, start, erasure, log_walsh2>>

\* `codeword[i] = 0` for the erased i
TestErase ==
  /\ pc = "encoded"
  /\ codeword' = Tab([i \in 1..Len(codeword) |->
                        IF i <= Len(erasure) /\ erasure[i] THEN 0 ELSE codeword[i]],
                     Len(codeword))
  /\ pc' = "erased"
  /\ UNCHANGED <<tableVars, calls, shards, fn, n, k, start, data, erasure, log_walsh2, i_high>>

\* decode_main indexes codeword[i + 1] for the even i < n, and its transforms
\* work on codeword[0..n)
DecodeMainInRange(len, n_) ==
  /\ n_ % 2 = 0
  /\ \A d \in IfftDeparts(n_) \cup FftDeparts(n_) : PassInRange(len, d, n_, 0)

\* `decode_main(&mut codeword[..], K, &erasure[..], &log_walsh2[..], N)`
TestDecode ==
  /\ pc = "erased"
  /\ IF DecodeMainAsserts(codeword, k, erasure, n) /\ DecodeMainInRange(Len(codeword), n)
     THEN /\ codeword' = decode_main(T, codeword, k, erasure, log_walsh2, n)
          /\ pc' = "decoded"
     ELSE codeword' = codeword /\ pc' = "panicked"
  /\ fn' = Append(fn, "decode_main")
  /\ UNCHANGED <<tableVars, calls, shards, n, k, start, data, erasure, log_walsh2, i_high>>

NextCore ==
  \/ TestInit
  \/ \E s \in CoreSizes, mask \in 0..MaxMask : TestErasures(s[1], s[2], mask)
  \/ \E msg \in Messages(n, k) : TestMessage(msg)
  \/ TestEncodeLow
  \/ TestEncodeHigh
  \/ TestEncodeHighStep
  \/ TestErase
  \/ TestDecode

SpecCore == InitCore /\ [][NextCore]_vars

\* C1: with the tables built by init then init_dec, for powers of two k <= n
\* and any data vector, encoding (encode_low when 2k <= n, encode_high
\* otherwise), erasing at most n - k positions and running
\* eval_error_polynomial and decode_main leaves data[i] in every erased
\* position i < k.
DecodeRestoresErasedData ==
  pc = "decoded" /\ BuiltTables /\ is_power_of_2(n) /\ is_power_of_2(k)
     /\ ErasedCount(erasure) <= n - k
    => \A i \in 1..k : erasure[i] => codeword[i] = data[i]

\* a decoded codeword of n = 4, k = 2 with both data positions erased and
\* restored to different non-zero values
DecodeRestoresWitness ==
  /\ pc = "decoded" /\ BuiltTables
  /\ n = 4 /\ k = 2
  /\ erasure = <<TRUE, TRUE, FALSE, FALSE>>
  /\ data[1] # 0 /\ data[2] # 0 /\ data[1] # data[2]
  /\ codeword[1] = data[1] /\ codeword[2] = data[2]

\* C8: for powers of two k, n with 2k <= n and every data vector of length n,
\* after encode_low(data, k, codeword, n) the first k codeword positions
\* equal data[0..k].
EncodeLowIsSystematic ==
  pc = "encoded" /\ fn[Len(fn)] = "encode_low"
    => SubSeq(codeword, 1, k) = SubSeq(data, 1, k)

\* an encode_low of n = 4, k = 2 over built tables whose parity half differs
\* from the data it was copied from
EncodeLowWitness ==
  /\ pc = "encoded" /\ fn[Len(fn)] = "encode_low" /\ BuiltTables
  /\ n = 4 /\ k = 2
  /\ SubSeq(codeword, 1, k) = SubSeq(data, 1, k)
  /\ data[1] # data[2]
  /\ SubSeq(codeword, 3, 4) # SubSeq(data, 3, 4)

----------------------------------------------------------------------------
(* The public interface: a process that calls encode and reconstruct, up   *)
(* to MaxCalls times.  A payload is a sequence of bytes, a shard is its    *)
(* two bytes <<low, high>>, and a shard that is None is <<>>.              *)

MaxCalls == 3

\* the length l that encode pads to
PaddedLength(len) ==
  LET l == Pow2[log2(len)]
  IN  IF l >= len THEN l ELSE 2 * l

\* `.tuple_windows().step_by(2).map(|(a, b)| (b as u16) << 8 | a as u16)`:
\* the windows (c[0], c[1]), (c[1], c[2]), ... of the chained bytes, every
\* second one kept
PackSymbols(chained) ==
  Tab([j \in 1..(Len(chained) \div 2) |-> chained[2 * j] * 256 + chained[2 * j - 1]],
      Len(chained) \div 2)

\* encode after `init()`, on the tables t that init() leaves: what it
\* returns, or a panic at one of its assertions
encode(t, bytes) ==
  LET l       == PaddedLength(Len(bytes))
      zero_bytes_to_add == l - Len(bytes)
      symbols == PackSymbols(bytes \o Zeros(zero_bytes_to_add))
      cw      == encode_low(t, symbols, K, N)
  IN  IF /\ l >= Len(bytes) /\ is_power_of_2(l) /\ is_power_of_2(N) /\ is_power_of_2(K)
         /\ Len(symbols) * 2 = l + zero_bytes_to_add
         /\ l \div 2 = N
         /\ K <= N \div 2
         /\ EncodeLowAsserts(symbols, K, Len(symbols), N)
      THEN [panic |-> FALSE,
            output |-> Tab([i \in 1..N |-> <<cw[i] % 256, cw[i] \div 256>>], N)]
      ELSE [panic |-> TRUE, output |-> <<>>]

\* reconstruct after `init_dec()`, on the tables t that init_dec() leaves.
\* It counts the erasures and never looks at the count, and returns Some(..)
\* whenever it returns.  The bytes are those of the u16 array in memory, on a
\* little-endian target.
reconstruct(t, received_shards) ==
  LET erasures  == Tab([i \in 1..Len(received_shards) |-> received_shards[i] = <<>>],
                       Len(received_shards))
      cw0       == Tab([i \in 1..Len(received_shards) |->
                          IF erasures[i] THEN 0
                          ELSE received_shards[i][2] * 256 + received_shards[i][1]],
                       Len(received_shards))
      lw2       == eval_error_polynomial(t, erasures, ZeroTable, FIELD_SIZE, N)
      cw        == decode_main(t, cw0, N, erasures, lw2, N)
      recovered == Tab([i \in 1..N |-> IF erasures[i] THEN cw[i] ELSE cw0[i]], N)
  IN  IF /\ Len(cw0) = N
         /\ Len(lw2) >= N                \* decode_main indexes log_walsh2[0..N)
         /\ DecodeMainAsserts(cw0, N, erasures, N)
      THEN [panic |-> FALSE,
            output |-> Tab([b \in 1..(2 * N) |->
                              IF b % 2 = 1 THEN recovered[(b + 1) \div 2] % 256
                              ELSE recovered[b \div 2] \div 256], 2 * N)]
      ELSE [panic |-> TRUE, output |-> <<>>]

\* a payload of 2 * N bytes, the same payload without its last (zero) byte,
\* the empty payload, and a payload of twice the length
Payloads ==
  {Tab([i \in 1..(2 * N) |-> IF i <= 4 THEN i - 1 ELSE 0], 2 * N),
   Tab([i \in 1..(2 * N - 1) |-> IF i <= 4 THEN i - 1 ELSE 0], 2 * N - 1),
   <<>>,
   Tab([i \in 1..(4 * N) |-> i % 256], 4 * N)}

\* the sets of shard indices a caller drops: four shards, all but K, and all
\* but K - 1
DropPatterns == {0..(K - 1), 0..(N - K - 1), 0..(N - K)}

\* the shards a caller holds before any encode
BlankShards == Tab([i \in 1..N |-> <<0, 0>>], N)

Received(held, dropped) ==
  Tab([i \in 1..Len(held) |-> IF (i - 1) \in dropped THEN <<>> ELSE held[i]], Len(held))

PresentCount(received_shards) ==
  Cardinality({i \in 1..Len(received_shards) : received_shards[i] # <<>>})

Init ==
  /\ StaticTables
  /\ pc = "idle"
  /\ calls = <<>>
  /\ shards = <<>>
  /\ fn = <<>>
  /\ n = 0 /\ k = 0 /\ start = 0 /\ i_high = 0
  /\ data = <<>> /\ codeword = <<>> /\ erasure = <<>> /\ log_walsh2 = <<>>

\* the tables that the transforms and mul_table read in a call of op, each
\* with the version it has in tb
TablesRead(op, tb) ==
  {<<"LOG_TABLE", tb.LOG_TABLE>>, <<"EXP_TABLE", tb.EXP_TABLE>>,
   <<"SKEW_FACTOR", tb.SKEW_FACTOR.from>>}
  \cup (IF op = "reconstruct"
        THEN {<<"B", tb.B.from>>, <<"LOG_WALSH", tb.LOG_WALSH.from>>}
        ELSE {})

\* the end of a call: the tables are as tb, the call is on record, and a
\* panic ends the process
Return(op, input, tb, ret) ==
  /\ SetTables(tb)
  /\ calls' = Append(calls,
       [op |-> op, input |-> input, panic |-> ret.panic, output |-> ret.output,
        before |-> TableState, after |-> tb,
        read |-> IF ret.panic THEN {} ELSE TablesRead(op, tb)])
  /\ pc' = IF ret.panic THEN "panicked" ELSE "idle"

\* a call of encode: init(), then the rest; the caller keeps the shards
Encode(bytes) ==
  /\ pc = "idle"
  /\ Len(calls) < MaxCalls
  /\ \E tb \in {init(TableState)} :
       \E t \in {ContentsOf(tb)} :
         \E ret \in {encode(t, bytes)} :
           /\ Return("encode", bytes, tb, ret)
           /\ shards' = IF ret.panic THEN shards ELSE ret.output
  /\ UNCHANGED coreVars

\* a call of reconstruct on the shards held, some of them dropped:
\* init_dec(), then the rest
Reconstruct(dropped) ==
  /\ pc = "idle"
  /\ Len(calls) < MaxCalls
  /\ \E tb \in {init_dec(TableState)} :
       \E received \in {Received(IF shards = <<>> THEN BlankShards ELSE shards, dropped)} :
         \E t \in {ContentsOf(tb)} :
           \E ret \in {reconstruct(t, received)} :
             Return("reconstruct", received, tb, ret)
  /\ UNCHANGED <<shards, coreVars>>

Next ==
  \/ \E bytes \in Payloads : Encode(bytes)
  \/ \E dropped \in DropPatterns : Reconstruct(dropped)

Spec == Init /\ [][Next]_vars

----------------------------------------------------------------------------
(* The public interface against its contract                               *)

\* reconstruct has one return statement, `Some(recovered.to_vec())`: a call
\* that did not panic returned Some(output)
ReturnedSome(call) == ~call.panic

\* all five tables have been written by init() and by an init_dec() that ran
\* on the LOG_TABLE and EXP_TABLE of init()
Built(tb) ==
  /\ tb.LOG_TABLE = "init" /\ tb.EXP_TABLE = "init"
  /\ tb.SKEW_FACTOR.from = "init" /\ tb.B.from = "init" /\ tb.LOG_WALSH.from = "init"

\* C2: in a fresh process, encode of an accepted payload followed by
\* reconstruct of its shards with at least K of them present returns bytes
\* whose first 2 * K (the data positions 0..K) are those of the payload.
RoundTripRestoresPayload ==
  (/\ Len(calls) >= 2
   /\ calls[1].op = "encode" /\ ~calls[1].panic
   /\ calls[2].op = "reconstruct"
   /\ PresentCount(calls[2].input) >= K)
  => /\ ReturnedSome(calls[2])
     /\ SubSeq(calls[2].output, 1, 2 * K) = SubSeq(calls[1].input, 1, 2 * K)

\* C3: a call of reconstruct with fewer than K shards present fails, gives
\* no output bytes and leaves the tables as they were.
TooFewShardsFail ==
  \A c \in 1..Len(calls) :
     (calls[c].op = "reconstruct" /\ PresentCount(calls[c].input) < K)
     => /\ ~ReturnedSome(calls[c])
        /\ calls[c].output = <<>>
        /\ calls[c].after = calls[c].before

\* C4: encode accepts a payload whose length is not a power of two and
\* returns the shards of the payload padded with zero bytes to the next
\* power of two.
EncodePadsPayload ==
  \A c \in 1..Len(calls) :
     (calls[c].op = "encode" /\ ~is_power_of_2(Len(calls[c].input)))
     => /\ ~calls[c].panic
        /\ calls[c].output =
             encode(ContentsOf(calls[c].after),
                    calls[c].input
                      \o Zeros(PaddedLength(Len(calls[c].input)) - Len(calls[c].input))).output

\* C5: two calls of the same operation on the same input give the same
\* output, whatever calls came before each.
SameInputSameOutput ==
  \A c \in 1..Len(calls) : \A d \in 1..Len(calls) :
     (calls[c].op = calls[d].op /\ calls[c].input = calls[d].input)
     => calls[c].panic = calls[d].panic /\ calls[c].output = calls[d].output

\* C6: a call made when all five tables are built leaves every entry of
\* every table as it was.
BuiltTablesStay ==
  \A c \in 1..Len(calls) :
     Built(calls[c].before) => ContentsOf(calls[c].after) = ContentsOf(calls[c].before)

\* C7: every table a call's transforms and multiplications read was fully
\* constructed before: LOG_TABLE and EXP_TABLE by init(), the other three by
\* an init_dec() that ran after init().
ReadsFollowConstruction ==
  \A c \in 1..Len(calls) : \A rd \in calls[c].read : rd[2] = "init"

----------------------------------------------------------------------------
(* encode_high on its own, for the sizes with k + k > n whose t = n - k is  *)
(* a power of two, n up to 2^MaxLogN: the array of n symbols is split at t  *)
(* as in ported_c_test, the head is `parity`, the tail of k symbols is      *)
(* `data`, and the codeword buffer is `mem`.                                *)

HighSizes ==
  {s \in (2..Pow2[MaxLogN]) \X (1..Pow2[MaxLogN]) :
     s[2] < s[1] /\ s[2] + s[2] > s[1] /\ is_power_of_2(s[1] - s[2])}

\* the sizes of the call; nothing is erased and eval_error_polynomial is not
\* run
TestHighSizes(n_, k_) ==
  /\ pc = "tables"
  /\ n' = n_
  /\ k' = k_
  /\ erasure' = ErasureOf(0, n_)
  /\ pc' = "erasures"
  /\ UNCHANGED <<tableVars, calls, shards, fn, start, data, codeword, log_walsh2, i_high>>

NextHigh ==
  \/ TestInit
  \/ \E s \in HighSizes : TestHighSizes(s[1], s[2])
  \/ \E msg \in Messages(n, k) : TestMessage(msg)
  \/ TestEncodeHigh
  \/ TestEncodeHighStep

SpecHigh == InitCore /\ [][NextHigh]_vars

\* C11: for k > n/2 with t = n - k a power of two, encode_high does not fail,
\* and the parity[0..t] it leaves is the FFT with index 0 of the XOR, over
\* i = t, 2t, ... below n, of the IFFT with index i of the block
\* data[i - t .. i].
EncodeHighXorsEveryBlock ==
  (/\ fn # <<>> /\ fn[Len(fn)] = "encode_high"
   /\ k + k > n /\ is_power_of_2(n - k))
  => /\ pc # "panicked"
     /\ pc = "encoded" =>
          LET t_      == n - k
              message == SubSeq(data, t_ + 1, n)
              passes  == (n - 1) \div t_
              block(p) == inverse_fft_in_novel_poly_basis(
                            T, SubSeq(message, (p - 1) * t_ + 1, p * t_), t_, p * t_)
              sum[p \in 0..passes] ==
                IF p = 0 THEN Zeros(t_)
                ELSE Tab([j \in 1..t_ |-> Xor(sum[p - 1][j], block(p)[j])], t_)
          IN  SubSeq(data, 1, t_) = fft_in_novel_poly_basis(T, sum[passes], t_, 0)

----------------------------------------------------------------------------
(* eval_error_polynomial on a buffer that is not fresh: the caller hands in *)
(* a log_walsh2 of FIELD_SIZE entries with contents of its own.             *)

\* log_walsh2 before the call: all zero as in reconstruct and ported_c_test,
\* or with one entry set, at index 0 (which the first loop overwrites), at
\* index N (the first one past `for i in z..N`) or at the last index
Buffers ==
  {ZeroTable} \cup
  {Tab([i \in 1..FIELD_SIZE |-> IF i = at + 1 THEN 1 ELSE 0], FIELD_SIZE) :
     at \in {0, N, FIELD_SIZE - 1}}

\* the erasure pattern of the call
TestPattern(n_, mask) ==
  /\ pc = "tables"
  /\ mask < Pow2[n_]
  /\ n' = n_
  /\ k' = n_
  /\ erasure' = ErasureOf(mask, n_)
  /\ pc' = "pattern"
  /\ UNCHANGED <<tableVars, calls, shards, fn, start, data, codeword, log_walsh2, i_high>>

\* what the buffer holds when the call is made
TestBuffer(buf) ==
  /\ pc = "pattern"
  /\ log_walsh2' = buf
  /\ pc' = "buffer"
  /\ UNCHANGED <<tableVars, calls, shards, fn, n, k, start, data, codeword, erasure, i_high>>

\* `eval_error_polynomial(&erasure[..], &mut log_walsh2[..], FIELD_SIZE)`;
\* log_walsh2[0..n) is kept, the entries a decode_main of size n reads
TestEval ==
  /\ pc = "buffer"
  /\ log_walsh2' = eval_error_polynomial(T, erasure, log_walsh2, FIELD_SIZE, n)
  /\ fn' = Append(fn, "eval_error_polynomial")
  /\ pc' = "evaluated"
  /\ UNCHANGED <<tableVars, calls, shards, n, k, start, data, codeword, erasure, i_high>>

NextEval ==
  \/ TestInit
  \/ \E n_ \in PowerOfTwoSizes, mask \in 0..MaxMask : TestPattern(n_, mask)
  \/ \E buf \in Buffers : TestBuffer(buf)
  \/ TestEval

SpecEval == InitCore /\ [][NextEval]_vars

\* C12: eval_error_polynomial zeroes log_walsh2 from min(n, len(erasure)) up
\* to FIELD_SIZE before its first Walsh transform, so what it leaves is what
\* it leaves on an all-zero buffer, whatever the buffer held.
EvalIgnoresBufferContents ==
  pc = "evaluated"
    => log_walsh2 = eval_error_polynomial(T, erasure, ZeroTable, FIELD_SIZE, n)

====
